---- MODULE Spec2Model ----
(***************************************************************************)
(* A model of the git-rs object store: the object codec (header, zlib      *)
(* framing), the write-to-temporary-then-rename protocol of                *)
(* Object::write_to_objects, Object::read with cat-file and ls-tree on top *)
(* of it, the directory snapshot of write_tree_for, hash-object in a       *)
(* working directory, and the commit-tree and commit commands with the     *)
(* branch ref file.                                                        *)
(*                                                                         *)
(* Bytes are naturals 0..255.  A file is an inode holding a byte sequence; *)
(* paths ("temporary" in the working directory, the entries of             *)
(* .git/objects) are links to inodes, as on a POSIX filesystem.            *)
(***************************************************************************)
EXTENDS Integers, Sequences, FiniteSets, TLC

VARIABLES
    fs,       \* the files: inodes, the "temporary" link, the object links
    inputs,   \* the objects the callers of this run may write
    writers,  \* per writer process: where it is in write_to_objects
    reader,   \* the cat-file process: where it is in Object::read
    log,      \* the write calls that returned Ok, in order
    dir,      \* the working directory's entries, in read_dir order
    snaps,    \* the outcomes of the write-tree commands run so far
    repo,     \* .git/HEAD, the branch ref file, the commit process
    runs      \* the outcomes of the other commands run so far

vars == <<fs, inputs, writers, reader, log, dir, snaps, repo, runs>>

\* ------------------------------------------------------------------ bounds

\* Calls one writer process makes in a run.
MaxCalls == 3
\* Bytes one write(2) / read(2) system call transfers.
ChunkLen == 6
\* Writer processes of the racing specification, and the calls each makes.
NumRacers == 2
RaceCalls == 1
\* The longest payload of the enumerated objects and stored streams.
MaxPayload == 3
\* The most entries the snapshotted directory holds, and the write-tree
\* commands of a run.
MaxEntries == 3
MaxSnaps == 2
\* The commit-tree and commit commands of a run.
MaxRuns == 2

\* ------------------------------------------------------------------- bytes

NUL == 0
SP == 32
PLUS == 43
ZERO == 48

Min(a, b) == IF a < b THEN a ELSE b
Max(a, b) == IF a > b THEN a ELSE b

\* The first index of byte b in s, 0 when s has none.
FirstIndex(s, b) ==
    IF \E i \in 1..Len(s) : s[i] = b
    THEN CHOOSE i \in 1..Len(s) : s[i] = b /\ \A j \in 1..(i - 1) : s[j] # b
    ELSE 0

Drop(s, n) == SubSeq(s, n + 1, Len(s))
Take(s, n) == SubSeq(s, 1, Min(n, Len(s)))

\* The sum of s[lo..hi], by halves.
RECURSIVE SumRange(_, _, _)
SumRange(s, lo, hi) ==
    IF lo > hi THEN 0
    ELSE IF lo = hi THEN s[lo]
    ELSE LET mid == (lo + hi) \div 2
         IN  SumRange(s, lo, mid) + SumRange(s, mid + 1, hi)
SumBytes(s) == SumRange(s, 1, Len(s))

\* ------------------------------------------------------------------- codec

Kinds == {"blob", "tree", "commit"}

\* impl Display for Kind: the lowercase type name, as ASCII bytes.
KindName(k) ==
    CASE k = "blob" -> <<98, 108, 111, 98>>
      [] k = "tree" -> <<116, 114, 101, 101>>
      [] k = "commit" -> <<99, 111, 109, 109, 105, 116>>

\* The kind a header token names, "" when it names none.
KindOfToken(tok) ==
    IF \E k \in Kinds : KindName(k) = tok
    THEN CHOOSE k \in Kinds : KindName(k) = tok
    ELSE ""

\* Display of a u64: decimal digits, no sign, no padding.
RECURSIVE Decimal(_)
Decimal(n) ==
    IF n < 10 THEN <<ZERO + n>>
    ELSE Decimal(n \div 10) \o <<ZERO + (n % 10)>>

IsDigit(b) == b >= ZERO /\ b <= ZERO + 9

RECURSIVE DigitsValue(_)
DigitsValue(s) ==
    IF s = <<>> THEN 0
    ELSE 10 * DigitsValue(SubSeq(s, 1, Len(s) - 1)) + (s[Len(s)] - ZERO)

\* str::parse::<u64>: an optional leading '+', then one or more decimal
\* digits; -1 stands for Err.  (The digit strings of the model are far below
\* 2^64, so the overflow error is out of reach.)
ParseU64(s) ==
    LET digits == IF s # <<>> /\ s[1] = PLUS THEN Tail(s) ELSE s
    IN  IF digits = <<>> \/ \E i \in 1..Len(digits) : ~IsDigit(digits[i])
        THEN -1
        ELSE DigitsValue(digits)

\* The header with the length as to_be_bytes() instead of decimal text.
HeaderBinary(kind, size) ==
    KindName(kind) \o <<SP>> \o <<0, 0, 0, 0, 0, 0, 0, size>> \o <<NUL>>

\* write!(writer, "{} {}\0", self.kind, self.expected_size)
Header(kind, size) == KindName(kind) \o <<SP>> \o Decimal(size) \o <<NUL>>

\* The bytes Object::write feeds to the hasher and the encoder: the header,
\* then everything the object's reader yields.
Canonical(o) == Header(o.kind, o.expected_size) \o o.payload

\* SHA-1 of a byte stream, abstracted as collision free: the digest stands
\* for the hashed bytes.
Sha1(bytes) == [sha1 |-> bytes]

\* Zlib framing, abstracted to one stored block: a magic byte, the block
\* length, the raw bytes and a checksum of them.
ZMAGIC == 120
Adler(s) == (1 + SumBytes(s)) % 251
ZlibEncode(s) == <<ZMAGIC, Len(s)>> \o s \o <<Adler(s)>>

\* ZlibDecoder over a file's bytes: the decoded bytes it delivers and whether
\* the stream ends in an error (a wrong magic byte, a stream cut short, a
\* wrong checksum).  Bytes after the checksum are never read.
ZlibDecode(f) ==
    IF Len(f) < 2 \/ f[1] # ZMAGIC THEN [data |-> <<>>, err |-> TRUE]
    ELSE LET n == f[2]
             body == SubSeq(f, 3, Min(2 + n, Len(f)))
         IN  IF Len(f) < n + 3 THEN [data |-> body, err |-> TRUE]
             ELSE [data |-> body, err |-> f[n + 3] # Adler(body)]

\* The compressed stream Object::write sends to its writer, finish() included.
EncoderOutput(o) == ZlibEncode(Canonical(o))

\* The hash Object::write returns: HashWriter hashes every byte written.
ObjectHash(o) == Sha1(Canonical(o))

\* ------------------------------------------------------ Object::read, cat-file

Failure(status, error) ==
    [status |-> status, error |-> error, kind |-> "", expected_size |-> 0,
     reader |-> <<>>, readerErr |-> FALSE]

\* Object::read once the file is open, over what the decoder delivers: the
\* header up to the first NUL, "<kind> <size>", and a reader limited to
\* `size` bytes of what follows (readerErr: reading it to its end hits the
\* decoder's error).  status "panic" is the expect() on a buffer that does not
\* end in NUL.
ObjectRead(dec) ==
    LET d == dec.data
        n == FirstIndex(d, NUL)
        header == SubSeq(d, 1, n - 1)
        sp == FirstIndex(header, SP)
        kind == KindOfToken(SubSeq(header, 1, sp - 1))
        size == ParseU64(Drop(header, sp))
        rest == Drop(d, n)
    IN  IF n = 0 THEN
            IF dec.err THEN Failure("err", "read header from .git/objects")
            ELSE Failure("panic", "known there is exactly one nul")
        ELSE IF \E i \in 1..Len(header) : header[i] > 127 THEN
            Failure("err", "header isn't valid utf-8")
        ELSE IF sp = 0 THEN
            Failure("err", "header did not start with a known type")
        ELSE IF kind = "" THEN
            Failure("err", "we do not yet know how to print")
        ELSE IF size < 0 THEN
            Failure("err", "header has invalid size")
        ELSE [status |-> "ok", error |-> "", kind |-> kind,
              expected_size |-> size, reader |-> Take(rest, size),
              readerErr |-> dec.err /\ Len(rest) < size]

\* OpenResult with the missing file unwrapped instead of returned.
OpenResultUnwrap(f, h) ==
    IF h \in DOMAIN f.objects
    THEN [status |-> "ok", error |-> "", ino |-> f.objects[h]]
    ELSE [status |-> "panic", error |-> "called unwrap on an Err value", ino |-> 0]

\* File::open of the object's path, with its context: the inode behind the
\* path, or the error of a missing file.
OpenResult(f, h) ==
    IF h \in DOMAIN f.objects
    THEN [status |-> "ok", error |-> "", ino |-> f.objects[h]]
    ELSE [status |-> "err", error |-> "NotFound", ino |-> 0]

CmdResult(status, error, out) == [status |-> status, error |-> error, out |-> out]

\* cat_file::invoke on the outcome of Object::read: a blob's reader is copied
\* to stdout and the count compared with the declared size afterwards; any
\* other kind is refused before a byte is written.
CatFile(pretty_print, object) ==
    IF ~pretty_print THEN
        CmdResult("err", "pretty printing is not yet implemented", <<>>)
    ELSE IF object.status # "ok" THEN
        CmdResult(object.status, object.error, <<>>)
    ELSE IF object.kind = "blob" THEN
        IF object.readerErr THEN
            CmdResult("err", "write .git/objects file to stdout", object.reader)
        ELSE IF Len(object.reader) # object.expected_size THEN
            CmdResult("err", "file was not the expected size", object.reader)
        ELSE CmdResult("ok", "", object.reader)
    ELSE CmdResult("err", "don't know how to print", <<>>)

\* -------------------------------------------------------------- filesystem

Range(f) == {f[x] : x \in DOMAIN f}

NoFiles == [i \in {} |-> <<>>]
NoObjects == [h \in {} |-> 0]
EmptyFs == [data |-> NoFiles, tmp |-> 0, objects |-> NoObjects]

\* The lowest inode number not in use.
FreshIno(f) ==
    CHOOSE i \in 1..(Cardinality(DOMAIN f.data) + 1) :
        i \notin DOMAIN f.data /\ \A j \in 1..(i - 1) : j \in DOMAIN f.data

\* FsCreateTmp opened without O_TRUNC: an existing file keeps its content.
FsCreateTmpKeep(f) ==
    IF f.tmp # 0 THEN f
    ELSE LET i == FreshIno(f)
         IN  [f EXCEPT !.tmp = i, !.data = (i :> <<>>) @@ f.data]

\* File::create("temporary"): O_CREAT | O_TRUNC on the one literal name.  An
\* existing file keeps its inode and loses its content; a missing one is
\* created.
FsCreateTmp(f) ==
    IF f.tmp # 0 THEN [f EXCEPT !.data[f.tmp] = <<>>]
    ELSE LET i == FreshIno(f)
         IN  [f EXCEPT !.tmp = i, !.data = (i :> <<>>) @@ f.data]

\* write(2) of `bytes` at offset `off` of an open inode; a gap between the
\* end of the file and the offset reads as zero bytes.
FsWriteAt(f, ino, off, bytes) ==
    LET old == f.data[ino]
        len == Max(Len(old), off + Len(bytes))
        new == [j \in 1..len |->
                   IF j > off /\ j <= off + Len(bytes) THEN bytes[j - off]
                   ELSE IF j <= Len(old) THEN old[j]
                   ELSE 0]
    IN  [f EXCEPT !.data[ino] = SubSeq(new, 1, len)]

\* FsRenameTmp as a hard link: "temporary" keeps naming the inode too.
FsLinkTmp(f, h) == [f EXCEPT !.objects = (h :> f.tmp) @@ f.objects]

\* create_dir_all of the fan-out directory (no effect on the files) and
\* rename("temporary", ".git/objects/<h[..2]>/<h[2..]>"): the destination now
\* names whatever inode "temporary" named, replacing any file that was there.
FsRenameTmp(f, h) ==
    [f EXCEPT !.objects = (h :> f.tmp) @@ f.objects, !.tmp = 0]

\* Inodes that are neither linked nor open are gone.
Reclaim(f, open) ==
    LET live == ({f.tmp} \cup Range(f.objects) \cup open) \cap DOMAIN f.data
    IN  [f EXCEPT !.data = [i \in live |-> f.data[i]]]

\* What a reader of the store can see: the content behind every object path.
StoreView(f) == [h \in DOMAIN f.objects |-> f.data[f.objects[h]]]

\* -------------------------------------------------------------- repository

\* "ref: refs/heads/master\n", the HEAD that repo_create writes.
HeadOfInit ==
    <<114, 101, 102, 58, 32, 114, 101, 102, 115, 47, 104, 101, 97, 100, 115,
      47, 109, 97, 115, 116, 101, 114, 10>>

\* A file that may be missing: the branch ref under .git/refs/heads.
NoFile == [exists |-> FALSE, text |-> <<>>]
FileOf(text) == [exists |-> TRUE, text |-> text]

IdleCommit ==
    [pc |-> "idle", message |-> <<>>, parent_hash |-> <<>>, before |-> NoFile,
     tree_hash |-> [sha1 |-> <<>>], commit_hash |-> [sha1 |-> <<>>]]

\* The repository as repo_create leaves it: HEAD names the master branch,
\* refs/heads is an empty directory, no commit command is running.
RepoCreate == [head |-> HeadOfInit, ref |-> NoFile, commit |-> IdleCommit]

\* ------------------------------------------------- write_to_objects, by steps

IdleWriter == [pc |-> "idle", obj |-> <<>>, fd |-> 0, off |-> 0, left |-> 0,
               res |-> "none"]
IdleReader == [pc |-> "idle", hash |-> <<>>, fd |-> 0, buf |-> <<>>,
               missing |-> FALSE, object |-> Failure("none", ""),
               res |-> CmdResult("none", "", <<>>)]

OpenInodes(ws, r) == ({ws[p].fd : p \in DOMAIN ws} \cup {r.fd}) \ {0}

\* A process calls write_to_objects (or reaches the blob write of
\* write_tree_for, which runs the same steps) on object o.
WCall(p, o) ==
    /\ writers[p].pc = "idle"
    /\ writers[p].left > 0
    /\ writers' = [writers EXCEPT ![p].pc = "create", ![p].obj = o,
                                  ![p].left = @ - 1, ![p].res = "none"]
    /\ UNCHANGED <<fs, inputs, reader, log, dir, snaps, repo, runs>>

\* std::fs::File::create(tmp)
WCreate(p) ==
    /\ writers[p].pc = "create"
    /\ LET f == FsCreateTmp(fs)
       IN  /\ fs' = f
           /\ writers' = [writers EXCEPT ![p].pc = "stream", ![p].fd = f.tmp,
                                         ![p].off = 0]
    /\ UNCHANGED <<inputs, reader, log, dir, snaps, repo, runs>>

\* Object::write: the encoder hands the next bytes of its output to the file.
WStream(p) ==
    LET w == writers[p]
        out == EncoderOutput(w.obj)
        chunk == SubSeq(out, w.off + 1, Min(w.off + ChunkLen, Len(out)))
    IN  /\ w.pc = "stream"
        /\ w.off < Len(out)
        /\ fs' = FsWriteAt(fs, w.fd, w.off, chunk)
        /\ writers' = [writers EXCEPT ![p].off = w.off + Len(chunk)]
        /\ UNCHANGED <<inputs, reader, log, dir, snaps, repo, runs>>

\* Object::write has returned (the file is closed); create_dir_all, then
\* rename.  With no file named "temporary" left, rename fails and the call
\* returns its error.
WRename(p) ==
    LET w == writers[p]
        h == ObjectHash(w.obj)
        ws == [writers EXCEPT ![p].pc = "idle", ![p].fd = 0, ![p].off = 0]
    IN  /\ w.pc = "stream"
        /\ w.off = Len(EncoderOutput(w.obj))
        /\ IF fs.tmp = 0
           THEN /\ fs' = Reclaim(fs, OpenInodes(ws, reader))
                /\ writers' = [ws EXCEPT ![p].res = "err"]
                /\ log' = log
           ELSE LET f == Reclaim(FsRenameTmp(fs, h), OpenInodes(ws, reader))
                IN  /\ fs' = f
                    /\ writers' = [ws EXCEPT ![p].res = "ok"]
                    /\ log' = Append(log, [proc |-> p, obj |-> w.obj, hash |-> h,
                                           store |-> StoreView(f)])
        /\ UNCHANGED <<inputs, reader, dir, snaps, repo, runs>>

\* A write to the temporary file fails (disk full, I/O error): `?` returns the
\* error at once, and the file stays where it is.
WIoFail(p) ==
    LET ws == [writers EXCEPT ![p].pc = "idle", ![p].fd = 0, ![p].off = 0,
                              ![p].res = "err"]
    IN  /\ writers[p].pc = "stream"
        /\ writers' = ws
        /\ fs' = Reclaim(fs, OpenInodes(ws, reader))
        /\ UNCHANGED <<inputs, reader, log, dir, snaps, repo, runs>>

\* ------------------------------------------------- Object::read, by steps

\* cat-file -p <h> starts.
RCall(h) ==
    /\ reader.pc = "idle"
    /\ reader' = [IdleReader EXCEPT !.pc = "open", !.hash = h]
    /\ UNCHANGED <<fs, inputs, writers, log, dir, snaps, repo, runs>>

\* File::open(".git/objects/<h[0..2]>/<h[2..]>")
ROpen ==
    LET o == OpenResult(fs, reader.hash)
    IN  /\ reader.pc = "open"
        /\ reader' =
              IF o.status = "ok"
              THEN [reader EXCEPT !.pc = "read", !.fd = o.ino,
                                  !.missing = reader.hash \notin DOMAIN fs.objects]
              ELSE [reader EXCEPT !.pc = "done",
                                  !.missing = reader.hash \notin DOMAIN fs.objects,
                                  !.object = Failure(o.status, o.error),
                                  !.res = CmdResult(o.status, o.error, <<>>)]
        /\ UNCHANGED <<fs, inputs, writers, log, dir, snaps, repo, runs>>

\* The decoder reads the next bytes of the open file.
RRead ==
    LET data == fs.data[reader.fd]
        off == Len(reader.buf)
    IN  /\ reader.pc = "read"
        /\ off < Len(data)
        /\ reader' = [reader EXCEPT
                         !.buf = @ \o SubSeq(data, off + 1,
                                            Min(off + ChunkLen, Len(data)))]
        /\ UNCHANGED <<fs, inputs, writers, log, dir, snaps, repo, runs>>

\* The file is at its end: Object::read and cat-file have seen all they will.
REof ==
    LET object == ObjectRead(ZlibDecode(reader.buf))
        r == [reader EXCEPT !.pc = "done", !.fd = 0, !.object = object,
                            !.res = CatFile(TRUE, object)]
    IN  /\ reader.pc = "read"
        /\ Len(reader.buf) >= Len(fs.data[reader.fd])
        /\ reader' = r
        /\ fs' = Reclaim(fs, OpenInodes(writers, r))
        /\ UNCHANGED <<inputs, writers, log, dir, snaps, repo, runs>>

\* The process exits; another cat-file may start.
RExit ==
    /\ reader.pc = "done"
    /\ reader' = IdleReader
    /\ UNCHANGED <<fs, inputs, writers, log, dir, snaps, repo, runs>>

Blob(payload) ==
    [kind |-> "blob", expected_size |-> Len(payload), payload |-> payload]

\* The objects of the step-wise specifications: two blobs whose compressed
\* streams differ in length, and a commit.
StoreInputs ==
    {Blob(<<>>), Blob(<<97, 98, 99, 100>>),
     [kind |-> "commit", expected_size |-> 2, payload |-> <<120, 10>>]}

InitStore(procs, calls) ==
    /\ fs = EmptyFs
    /\ inputs = StoreInputs
    /\ writers = [p \in procs |-> [IdleWriter EXCEPT !.left = calls]]
    /\ reader = IdleReader
    /\ log = <<>>
    /\ dir = <<>>
    /\ snaps = <<>>
    /\ repo = RepoCreate
    /\ runs = <<>>

NextStore ==
    \/ \E p \in DOMAIN writers, o \in inputs : WCall(p, o)
    \/ \E p \in DOMAIN writers : WCreate(p)
    \/ \E p \in DOMAIN writers : WStream(p)
    \/ \E p \in DOMAIN writers : WRename(p)
    \/ \E p \in DOMAIN writers : WIoFail(p)
    \/ \E h \in {ObjectHash(o) : o \in inputs} : RCall(h)
    \/ ROpen
    \/ RRead
    \/ REof
    \/ RExit

\* One writer process and one reader.
Init == InitStore({1}, MaxCalls)
Spec == Init /\ [][NextStore]_vars

\* Several writer processes in the same working directory, and one reader.
InitRace == InitStore(1..NumRacers, RaceCalls)
SpecRace == InitRace /\ [][NextStore]_vars

\* --------------------------------------------------- whole calls, in turn

\* What write_to_objects does to the files when nothing runs in between:
\* create, the whole stream, rename.
WriteAll(f, o) ==
    LET created == FsCreateTmp(f)
        written == FsWriteAt(created, created.tmp, 0, EncoderOutput(o))
    IN  Reclaim(FsRenameTmp(written, ObjectHash(o)), {})

\* One write_to_objects call, start to end.
WriteObject(o) ==
    /\ reader.pc = "idle"
    /\ Len(log) < MaxCalls
    /\ LET f == WriteAll(fs, o)
       IN  /\ fs' = f
           /\ log' = Append(log, [proc |-> 0, obj |-> o, hash |-> ObjectHash(o),
                                  store |-> StoreView(f)])
    /\ UNCHANGED <<inputs, writers, reader, dir, snaps, repo, runs>>

\* One cat-file -p <h>, start to end.
CatFileCmd(h) ==
    LET o == OpenResult(fs, h)
        object == IF o.status = "ok"
                  THEN ObjectRead(ZlibDecode(fs.data[o.ino]))
                  ELSE Failure(o.status, o.error)
    IN  /\ reader.pc = "idle"
        /\ reader' = [IdleReader EXCEPT
                         !.pc = "done", !.hash = h,
                         !.missing = h \notin DOMAIN fs.objects,
                         !.buf = IF o.status = "ok" THEN fs.data[o.ino] ELSE <<>>,
                         !.object = object,
                         !.res = IF o.status = "ok" THEN CatFile(TRUE, object)
                                 ELSE CmdResult(o.status, o.error, <<>>)]
        /\ UNCHANGED <<fs, inputs, writers, log, dir, snaps, repo, runs>>

BoundedSeqs(S, n) == UNION {[1..k -> S] : k \in 0..n}

\* Payload bytes that matter to the header scan: NUL, space, a digit, a letter.
PayloadBytes == {NUL, SP, ZERO + 1, 97}
Payloads == BoundedSeqs(PayloadBytes, MaxPayload)
\* The payloads written: those, and ones with a byte that is not UTF-8.
ObjectPayloads == BoundedSeqs(PayloadBytes \cup {255}, MaxPayload)
LongPayloads == {[i \in 1..n |-> 97] : n \in {10, 21, 100}}

\* Every kind with every short payload, and some payloads whose length takes
\* two or three digits.
CodecObjects ==
    {[kind |-> k, expected_size |-> Len(p), payload |-> p] :
        k \in Kinds, p \in ObjectPayloads \cup LongPayloads}

\* Decoded streams an object file can hold when it was not written by
\* Object::write: "<kind><sep><size><terminator><bytes>" with each part right,
\* wrong or missing.
KindTokens == {KindName(k) : k \in Kinds} \cup {<<116, 97, 103>>, <<>>, <<255>>}
SizeTokens ==
    {Decimal(n) : n \in 0..(MaxPayload + 1)}
        \cup {<<PLUS, ZERO + 1>>, <<45, ZERO + 1>>, <<>>, <<ZERO + 1, 97>>}
ForeignStreams ==
    {k \o sep \o size \o term \o p :
        k \in KindTokens, sep \in {<<SP>>, <<>>}, size \in SizeTokens,
        term \in {<<NUL>>, <<>>}, p \in Payloads}

\* A store holding one such file, under the hash of its decoded bytes.
ForeignFs(d) ==
    [data |-> (1 :> ZlibEncode(d)), tmp |-> 0, objects |-> (Sha1(d) :> 1)]

InitCodec ==
    /\ \/ \E o \in CodecObjects : inputs = {o} /\ fs = EmptyFs
       \/ \E d \in ForeignStreams : inputs = {} /\ fs = ForeignFs(d)
    /\ writers = [p \in {} |-> IdleWriter]
    /\ reader = IdleReader
    /\ log = <<>>
    /\ dir = <<>>
    /\ snaps = <<>>
    /\ repo = RepoCreate
    /\ runs = <<>>

NextCodec ==
    \/ \E o \in inputs : WriteObject(o)
    \/ \E h \in {ObjectHash(o) : o \in inputs} \cup DOMAIN fs.objects : CatFileCmd(h)
    \/ RExit

SpecCodec == InitCodec /\ [][NextCodec]_vars

\* ----------------------------------------------------------- write-tree

DotGit == <<46, 103, 105, 116>>

\* A directory entry: its name, what it is ("file", "exec": a file with an
\* executable bit, "symlink", "dir"), the bytes a read of it yields and, for a
\* directory, its own entries in read_dir order.
Entry(name, type, content, children) ==
    [name |-> name, type |-> type, content |-> content, children |-> children]

\* <[u8]>::cmp on two slices of the same length.
SliceCmp(x, y) ==
    IF x = y THEN "Equal"
    ELSE LET i == CHOOSE k \in 1..Len(x) :
                      x[k] # y[k] /\ \A j \in 1..(k - 1) : x[j] = y[j]
         IN  IF x[i] < y[i] THEN "Less" ELSE "Greater"

\* The closure given to sort_unstable_by.  file_type().is_dir() is false for
\* a symlink.
EntryCmp(a, b) ==
    LET an == a.name
        bn == b.name
        min_len == Min(Len(an), Len(bn))
        head == SliceCmp(SubSeq(an, 1, min_len), SubSeq(bn, 1, min_len))
        a_is_dir == a.type = "dir"
        b_is_dir == b.type = "dir"
    IN  IF head # "Equal" THEN head
        ELSE IF Len(an) = Len(bn) THEN "Equal"
        ELSE IF (a_is_dir /\ Len(an) < Len(bn)) \/ (b_is_dir /\ Len(bn) < Len(an))
             THEN "Equal"
        ELSE IF Len(an) < Len(bn) THEN "Less"
        ELSE "Greater"

\* One insertion of slice sorting: x moves left past every element it is
\* Less than, from the right, and stops at the first it is not.
RECURSIVE InsertLeft(_, _, _)
InsertLeft(sorted, x, j) ==
    IF j > 0 /\ EntryCmp(x, sorted[j]) = "Less"
    THEN InsertLeft(sorted, x, j - 1)
    ELSE SubSeq(sorted, 1, j) \o <<x>> \o SubSeq(sorted, j + 1, Len(sorted))

\* sort_unstable_by on a slice of at most 20 elements: insertion sort.
RECURSIVE SortFrom(_, _)
SortFrom(v, i) ==
    IF i > Len(v) THEN v
    ELSE SortFrom(InsertLeft(SubSeq(v, 1, i - 1), v[i], i - 1)
                      \o SubSeq(v, i + 1, Len(v)), i + 1)
SortUnstableBy(v) == SortFrom(v, 2)

\* The mode string of an entry, from its (symlink) metadata.
Mode(e) ==
    IF e.type = "dir" THEN <<52, 48, 48, 48, 48>>
    ELSE IF e.type = "symlink" THEN <<49, 50, 48, 48, 48, 48>>
    ELSE IF e.type = "exec" THEN <<49, 48, 48, 55, 53, 53>>
    ELSE <<49, 48, 48, 54, 52, 52>>

\* The raw digest bytes of a tree entry.  The digest stands for the hashed
\* bytes, so its bytes are those, behind their count.
HashBytes(h) == <<Len(h.sha1)>> \o h.sha1

\* "{mode} {name}\0{raw hash}"
EntryBytes(mode, name, h) == mode \o <<SP>> \o name \o <<NUL>> \o HashBytes(h)

\* Object::blob_from_file: the length from the file's metadata, the file as
\* the reader.  e.content is the file at the stat; an entry with a `read`
\* field is a file whose reader yields other bytes than those.
BlobFromFile(e) ==
    [kind |-> "blob", expected_size |-> Len(e.content),
     payload |-> IF "read" \in DOMAIN e THEN e.read ELSE e.content]

\* "temporary", the name every write creates in the working directory.
TmpName == <<116, 101, 109, 112, 111, 114, 97, 114, 121>>

\* What the blob's reader, open on ./temporary, yields once File::create has
\* truncated that same file for the blob's own output: nothing when the
\* encoder has flushed nothing by the time of the copy, the start of the
\* compressed stream when it has.
TmpReads == {<<>>, <<ZMAGIC>>}

\* read_dir(".") of the working directory: the user's entries and, when a
\* file named "temporary" is there, that file.
WorkListing(f, d, read) ==
    IF f.tmp = 0 THEN d
    ELSE d \o <<[name |-> TmpName, type |-> "file", content |-> f.data[f.tmp],
                 children |-> <<>>, read |-> read]>>

NoHash == [sha1 |-> <<>>]

\* write_tree_for on a directory whose read_dir yields `listing`, over files
\* f: Some(hash) or None, the files afterwards and the tree payload written.
\* TreeLoop is its `for entry in entries` from entry i on.
RECURSIVE WriteTreeFor(_, _)
RECURSIVE TreeLoop(_, _, _, _)

\* WriteTreeFor that writes a tree object also when it has no entries.
WriteTreeForEmpty(f, listing) ==
    LET done == TreeLoop(f, SortUnstableBy(listing), 1, <<>>)
        tree == [kind |-> "tree", expected_size |-> Len(done.tree_object),
                 payload |-> done.tree_object]
    IN  [some |-> TRUE, hash |-> ObjectHash(tree),
         fs |-> WriteAll(done.fs, tree), payload |-> done.tree_object]

WriteTreeFor(f, listing) ==
    LET done == TreeLoop(f, SortUnstableBy(listing), 1, <<>>)
        tree == [kind |-> "tree", expected_size |-> Len(done.tree_object),
                 payload |-> done.tree_object]
    IN  IF done.tree_object = <<>>
        THEN [some |-> FALSE, hash |-> NoHash, fs |-> done.fs, payload |-> <<>>]
        ELSE [some |-> TRUE, hash |-> ObjectHash(tree),
              fs |-> WriteAll(done.fs, tree), payload |-> done.tree_object]
TreeLoop(f, entries, i, tree_object) ==
    IF i > Len(entries) THEN [fs |-> f, tree_object |-> tree_object]
    ELSE LET e == entries[i]
         IN  IF e.name = DotGit THEN TreeLoop(f, entries, i + 1, tree_object)
             ELSE IF e.type = "dir" THEN
                 LET sub == WriteTreeFor(f, e.children)
                 IN  IF sub.some
                     THEN TreeLoop(sub.fs, entries, i + 1,
                              tree_object \o EntryBytes(Mode(e), e.name, sub.hash))
                     ELSE TreeLoop(sub.fs, entries, i + 1, tree_object)
             ELSE LET blob == BlobFromFile(e)
                  IN  TreeLoop(WriteAll(f, blob), entries, i + 1,
                          tree_object \o EntryBytes(Mode(e), e.name, ObjectHash(blob)))

\* The write-tree command: the snapshot of ".", its hash printed, or the
\* error for an empty directory.
WriteTreeCmd ==
    /\ Len(snaps) < MaxSnaps
    /\ \E read \in TmpReads :
          LET r == WriteTreeFor(fs, WorkListing(fs, dir, read))
          IN  /\ fs' = r.fs
              /\ snaps' = Append(snaps,
                     [status |-> IF r.some THEN "ok" ELSE "err", hash |-> r.hash,
                      payload |-> r.payload])
    /\ UNCHANGED <<inputs, writers, reader, log, dir, repo, runs>>

Perms(v) ==
    {w \in [1..Len(v) -> Range(v)] : \A x \in Range(v) : \E i \in 1..Len(v) : w[i] = x}

\* The next read_dir of the same directory yields its entries in another
\* order (the order is the filesystem's choice).
Reorder ==
    /\ \E w \in Perms(dir) : w # dir /\ dir' = SubSeq(w, 1, Len(w))
    /\ UNCHANGED <<fs, inputs, writers, reader, log, snaps, repo, runs>>

\* Names of which one is a proper prefix of others, around '/' in byte
\* order ('.' < '/' < '0'), and the metadata directory.
TreeNames == {<<97>>, <<97, 46>>, <<97, 48>>, <<97, 46, 98>>, <<98>>, DotGit}

\* What a name can be: a file, an executable file, a directory holding one
\* file, an empty directory.
EntriesNamed(n) ==
    {Entry(n, "file", n, <<>>), Entry(n, "exec", n, <<>>),
     Entry(n, "dir", <<>>, <<Entry(<<102>>, "file", n, <<>>)>>),
     Entry(n, "dir", <<>>, <<>>)}

\* Every directory of at most MaxEntries distinct names, in every order.
Listings ==
    {v \in BoundedSeqs(UNION {EntriesNamed(n) : n \in TreeNames}, MaxEntries) :
        \A i, j \in 1..Len(v) : i # j => v[i].name # v[j].name}

InitTree ==
    /\ dir \in Listings
    /\ fs = EmptyFs
    /\ inputs = {}
    /\ writers = [p \in {} |-> IdleWriter]
    /\ reader = IdleReader
    /\ log = <<>>
    /\ snaps = <<>>
    /\ repo = RepoCreate
    /\ runs = <<>>

NextTree ==
    \/ WriteTreeCmd
    \/ Reorder

SpecTree == InitTree /\ [][NextTree]_vars

\* ------------------------------------------------- write-tree, nested

\* What a name can be in a directory with subdirectories: a file; a
\* directory that is empty, holds a file, holds only a metadata directory,
\* holds an empty directory, holds a directory holding an empty directory,
\* holds a directory holding a file, or holds a file and an empty directory.
NestedNamed(n) ==
    LET f == Entry(<<102>>, "file", n, <<>>)
        d(children) == Entry(<<100>>, "dir", <<>>, children)
        top(children) == Entry(n, "dir", <<>>, children)
    IN  {Entry(n, "file", n, <<>>),
         top(<<>>),
         top(<<f>>),
         top(<<Entry(DotGit, "dir", <<>>, <<f>>)>>),
         top(<<d(<<>>)>>),
         top(<<d(<<Entry(<<101>>, "dir", <<>>, <<>>)>>)>>),
         top(<<d(<<f>>)>>),
         top(<<d(<<>>), f>>)}

NestedNames == {<<97>>, <<98>>, DotGit}

NestedListings ==
    {v \in BoundedSeqs(UNION {NestedNamed(n) : n \in NestedNames}, MaxEntries) :
        \A i, j \in 1..Len(v) : i # j => v[i].name # v[j].name}

InitNested ==
    /\ dir \in NestedListings
    /\ fs = EmptyFs
    /\ inputs = {}
    /\ writers = [p \in {} |-> IdleWriter]
    /\ reader = IdleReader
    /\ log = <<>>
    /\ snaps = <<>>
    /\ repo = RepoCreate
    /\ runs = <<>>

SpecNested == InitNested /\ [][NextTree]_vars

\* ------------------------------------------------- commit-tree, commit

LF == 10

\* hex::encode: two lowercase digits a byte.
HexDigit(n) == IF n < 10 THEN ZERO + n ELSE 87 + n
HexEncode(b) ==
    LET hex == [i \in 1..(2 * Len(b)) |->
                   IF i % 2 = 1 THEN HexDigit(b[(i + 1) \div 2] \div 16)
                   ELSE HexDigit(b[i \div 2] % 16)]
    IN  SubSeq(hex, 1, 2 * Len(b))

\* hex::encode(hash) of a digest.
HashHex(h) == HexEncode(HashBytes(h))

\* str::trim: whitespace off both ends.
IsSpace(b) == b \in {9, 10, 11, 12, 13, 32}
RECURSIVE TrimStart(_)
TrimStart(s) == IF s # <<>> /\ IsSpace(s[1]) THEN TrimStart(Tail(s)) ELSE s
RECURSIVE TrimEnd(_)
TrimEnd(s) ==
    IF s # <<>> /\ IsSpace(s[Len(s)]) THEN TrimEnd(SubSeq(s, 1, Len(s) - 1))
    ELSE s
Trim(s) == TrimEnd(TrimStart(s))

\* str::strip_prefix
StripPrefix(s, prefix) ==
    IF Len(prefix) <= Len(s) /\ SubSeq(s, 1, Len(prefix)) = prefix
    THEN [some |-> TRUE, rest |-> Drop(s, Len(prefix))]
    ELSE [some |-> FALSE, rest |-> <<>>]

None == [some |-> FALSE, text |-> <<>>]
Some(text) == [some |-> TRUE, text |-> text]

\* "root <root@vmi2447354.contaboserver.net>"
Identity ==
    <<114, 111, 111, 116, 32, 60, 114, 111, 111, 116, 64, 118, 109, 105, 50,
      52, 52, 55, 51, 53, 52, 46, 99, 111, 110, 116, 97, 98, 111, 115, 101,
      114, 118, 101, 114, 46, 110, 101, 116, 62>>

\* The String write_commit builds, one writeln! after the other.
CommitText(message, tree_hash, parent_tree_hash) ==
    <<116, 114, 101, 101, 32>> \o tree_hash \o <<LF>>
        \o (IF parent_tree_hash.some
            THEN <<112, 97, 114, 101, 110, 116, 32>> \o parent_tree_hash.text \o <<LF>>
            ELSE <<>>)
        \o <<97, 117, 116, 104, 111, 114, 32>> \o Identity \o <<LF>>
        \o <<99, 111, 109, 109, 105, 116, 116, 101, 114, 32>> \o Identity \o <<LF>>
        \o message \o <<LF>>

\* The Object write_commit hands to write_to_objects.
WriteCommit(message, tree_hash, parent_tree_hash) ==
    LET commit == CommitText(message, tree_hash, parent_tree_hash)
    IN  [kind |-> "commit", expected_size |-> Len(commit), payload |-> commit]

\* The outcome of one command, as the log keeps it: what it was given, what it
\* returned and printed, the commit it stored (if any), the ref file before
\* and after.
Run(cmd, status, error, stdout, c, wrote) ==
    [cmd |-> cmd, status |-> status, error |-> error, stdout |-> stdout,
     message |-> c.message, tree |-> c.tree, parent |-> c.parent,
     hash |-> c.hash, wrote |-> wrote, before |-> c.before, after |-> c.after]

\* commit_tree::invoke: write_commit, and Ok(()) with the hash dropped.
CommitTreeCmd(message, tree_hash, parent_tree_hash) ==
    LET o == WriteCommit(message, tree_hash, parent_tree_hash)
    IN  /\ repo.commit.pc = "idle"
        /\ Len(runs) < MaxRuns
        /\ fs' = WriteAll(fs, o)
        /\ runs' = Append(runs,
              Run("commit-tree", "ok", "", <<>>,
                  [message |-> message, tree |-> tree_hash,
                   parent |-> parent_tree_hash, hash |-> ObjectHash(o),
                   before |-> repo.ref, after |-> repo.ref], TRUE))
        /\ UNCHANGED <<inputs, writers, reader, log, dir, snaps, repo>>

\* "refs/heads/master", the one ref file of the model.
RefName ==
    <<114, 101, 102, 115, 47, 104, 101, 97, 100, 115, 47, 109, 97, 115, 116,
      101, 114>>

\* The commit command's log entry when it ends at this point.
CommitRun(status, error, stdout, wrote, after) ==
    LET c == repo.commit
    IN  Run("commit", status, error, stdout,
            [message |-> c.message, tree |-> HashHex(c.tree_hash),
             parent |-> Some(HexEncode(c.parent_hash)), hash |-> c.commit_hash,
             before |-> c.before, after |-> after], wrote)

\* commit -m <message>: HEAD is read and must be "ref: <name>"; the ref file
\* it names is read and its trimmed text becomes the parent hash.
CommitCall(message) ==
    LET head_ref == StripPrefix(repo.head, <<114, 101, 102, 58, 32>>)
        target == IF head_ref.some /\ Trim(head_ref.rest) = RefName
                  THEN repo.ref ELSE NoFile
        c == [IdleCommit EXCEPT !.message = message, !.before = repo.ref]
        fail(error) ==
            Run("commit", "err", error, <<>>,
                [message |-> message, tree |-> <<>>, parent |-> None,
                 hash |-> NoHash, before |-> repo.ref, after |-> repo.ref], FALSE)
    IN  /\ repo.commit.pc = "idle"
        /\ Len(runs) < MaxRuns
        /\ IF ~head_ref.some THEN
               /\ runs' = Append(runs, fail("refusing to commit onto detached HEAD"))
               /\ repo' = repo
           ELSE IF ~target.exists THEN
               /\ runs' = Append(runs, fail("read HEAD reference target"))
               /\ repo' = repo
           ELSE
               /\ runs' = runs
               /\ repo' = [repo EXCEPT !.commit =
                             [c EXCEPT !.pc = "tree",
                                       !.parent_hash = Trim(target.text)]]
        /\ UNCHANGED <<fs, inputs, writers, reader, log, dir, snaps>>

\* write_tree_for(".") returns: None ends the command with Ok and no commit.
CommitTree ==
    /\ repo.commit.pc = "tree"
    /\ \E read \in TmpReads :
          LET r == WriteTreeFor(fs, WorkListing(fs, dir, read))
          IN  /\ fs' = r.fs
              /\ IF r.some
                 THEN /\ repo' = [repo EXCEPT !.commit.pc = "commit",
                                              !.commit.tree_hash = r.hash]
                      /\ runs' = runs
                 ELSE /\ repo' = [repo EXCEPT !.commit = IdleCommit]
                      /\ runs' = Append(runs,
                            CommitRun("ok", "not committing empty tree", <<>>,
                                      FALSE, repo.ref))
    /\ UNCHANGED <<inputs, writers, reader, log, dir, snaps>>

\* write_tree_for(".") fails: its first write to ./temporary returns an error
\* and `?` ends the command with the file left there.
CommitTreeFail ==
    /\ repo.commit.pc = "tree"
    /\ WriteTreeFor(fs, WorkListing(fs, dir, <<>>)).some
    /\ fs' = FsCreateTmp(fs)
    /\ repo' = [repo EXCEPT !.commit = IdleCommit]
    /\ runs' = Append(runs, CommitRun("err", "write tree", <<>>, FALSE, repo.ref))
    /\ UNCHANGED <<inputs, writers, reader, log, dir, snaps>>

\* write_commit(&message, &hex::encode(tree_hash), Some(&hex::encode(parent_hash)))
CommitWrite ==
    LET c == repo.commit
        o == WriteCommit(c.message, HashHex(c.tree_hash),
                         Some(HexEncode(c.parent_hash)))
    IN  /\ c.pc = "commit"
        /\ fs' = WriteAll(fs, o)
        /\ repo' = [repo EXCEPT !.commit.pc = "ref",
                                !.commit.commit_hash = ObjectHash(o)]
        /\ UNCHANGED <<inputs, writers, reader, log, dir, snaps, runs>>

\* CommitWriteFail with the ref file opened for writing before the commit
\* object is written.
CommitWriteFailTruncated ==
    /\ repo.commit.pc = "commit"
    /\ fs' = FsCreateTmp(fs)
    /\ repo' = [repo EXCEPT !.commit = IdleCommit, !.ref = FileOf(<<>>)]
    /\ runs' = Append(runs,
          CommitRun("err", "create commit", <<>>, FALSE, FileOf(<<>>)))
    /\ UNCHANGED <<inputs, writers, reader, log, dir, snaps>>

\* write_commit fails: a write to ./temporary returns an error.
CommitWriteFail ==
    /\ repo.commit.pc = "commit"
    /\ fs' = FsCreateTmp(fs)
    /\ repo' = [repo EXCEPT !.commit = IdleCommit]
    /\ runs' = Append(runs, CommitRun("err", "create commit", <<>>, FALSE, repo.ref))
    /\ UNCHANGED <<inputs, writers, reader, log, dir, snaps>>

\* std::fs::write(ref, &commit_hash), first half: the file is created or
\* truncated.
CommitRefOpen ==
    /\ repo.commit.pc = "ref"
    /\ repo' = [repo EXCEPT !.commit.pc = "refwrite", !.ref = FileOf(<<>>)]
    /\ UNCHANGED <<fs, inputs, writers, reader, log, dir, snaps, runs>>

\* std::fs::write, second half: the 40 hex digits are written, and
\* println!("HEAD is now at {commit_hash}").
CommitRefWrite ==
    LET commit_hash == HashHex(repo.commit.commit_hash)
    IN  /\ repo.commit.pc = "refwrite"
        /\ repo' = [repo EXCEPT !.commit = IdleCommit, !.ref = FileOf(commit_hash)]
        /\ runs' = Append(runs,
              CommitRun("ok", "",
                        <<72, 69, 65, 68, 32, 105, 115, 32, 110, 111, 119, 32, 97,
                          116, 32>> \o commit_hash \o <<LF>>,
                        TRUE, FileOf(commit_hash)))
        /\ UNCHANGED <<fs, inputs, writers, reader, log, dir, snaps>>

\* std::fs::write fails, at the open or at the write.
CommitRefFail ==
    /\ repo.commit.pc \in {"ref", "refwrite"}
    /\ repo' = [repo EXCEPT !.commit = IdleCommit]
    /\ runs' = Append(runs,
          CommitRun("err", "update HEAD reference target", <<>>, TRUE, repo.ref))
    /\ UNCHANGED <<fs, inputs, writers, reader, log, dir, snaps>>

\* The messages given with -m: empty, "init\n".
Messages == {<<>>, <<105, 110, 105, 116, 10>>}

\* Working directories to commit: empty, one file, a file and a directory.
CommitDirs ==
    {<<>>,
     <<Entry(<<97>>, "file", <<97>>, <<>>)>>,
     <<Entry(<<97>>, "file", <<97>>, <<>>),
       Entry(<<98>>, "dir", <<>>, <<Entry(<<102>>, "file", <<98>>, <<>>)>>)>>}

\* A root commit made by another git, and a HEAD that names a commit.
ForeignCommit == [kind |-> "commit", expected_size |-> 2, payload |-> <<120, 10>>]
DetachedHead == HashHex(ObjectHash(ForeignCommit)) \o <<LF>>

\* The repositories a command may find: fresh from init; on a detached HEAD;
\* with a branch whose ref file names a stored commit, "<hex>\n".
Repositories ==
    {[repo |-> RepoCreate, fs |-> EmptyFs],
     [repo |-> [RepoCreate EXCEPT !.head = DetachedHead],
      fs |-> WriteAll(EmptyFs, ForeignCommit)],
     [repo |-> [RepoCreate EXCEPT
                   !.ref = FileOf(HashHex(ObjectHash(ForeignCommit)) \o <<LF>>)],
      fs |-> WriteAll(EmptyFs, ForeignCommit)]}

InitCommit ==
    /\ dir \in CommitDirs
    /\ \E r \in Repositories : repo = r.repo /\ fs = r.fs
    /\ inputs = {}
    /\ writers = [p \in {} |-> IdleWriter]
    /\ reader = IdleReader
    /\ log = <<>>
    /\ snaps = <<>>
    /\ runs = <<>>

\* The hashes a caller of commit-tree names: a tree that write-tree printed,
\* and as the parent a commit that an earlier command of the run stored.
TreeArgs ==
    {HashHex(snaps[i].hash) : i \in {k \in 1..Len(snaps) : snaps[k].status = "ok"}}
ParentArgs ==
    {None} \cup {Some(HashHex(runs[i].hash)) :
                    i \in {k \in 1..Len(runs) : runs[k].wrote}}

\* write-tree and commit-tree, in turn.
NextCommitTree ==
    \/ WriteTreeCmd
    \/ \E message \in Messages, tree_hash \in TreeArgs, parent \in ParentArgs :
          CommitTreeCmd(message, tree_hash, parent)

SpecCommitTree == InitCommit /\ [][NextCommitTree]_vars

\* The commit command, step by step, one run after the other.
NextCommit ==
    \/ \E message \in Messages : CommitCall(message)
    \/ CommitTree
    \/ CommitTreeFail
    \/ CommitWrite
    \/ CommitWriteFail
    \/ CommitRefOpen
    \/ CommitRefWrite
    \/ CommitRefFail

SpecCommit == InitCommit /\ [][NextCommit]_vars

\* ----------------------------------------------------------------- ls-tree

\* {:0>6}: zeros on the left up to six characters.
Pad6(mode) ==
    IF Len(mode) >= 6 THEN mode ELSE [i \in 1..(6 - Len(mode)) |-> ZERO] \o mode

\* The loop of ls_tree::invoke over the bytes the tree's reader still holds,
\* with `out` already on stdout: "mode name" up to a NUL, the raw digest, a
\* line printed.  readerErr: the decoder fails where the bytes end.
RECURSIVE LsLoop(_, _, _, _, _)
LsLoop(f, name_only, bytes, readerErr, out) ==
    LET n == FirstIndex(bytes, NUL)
        mode_and_name == SubSeq(bytes, 1, n - 1)
        rest == Drop(bytes, n)
        sp == FirstIndex(mode_and_name, SP)
        mode == SubSeq(mode_and_name, 1, sp - 1)
        name == Drop(mode_and_name, sp)
        hash == [sha1 |-> SubSeq(rest, 2, 1 + rest[1])]
        after == Drop(rest, 1 + rest[1])
        open == OpenResult(f, hash)
        object == ObjectRead(ZlibDecode(f.data[open.ino]))
    IN  IF bytes = <<>> THEN
            IF readerErr
            THEN CmdResult("err", "read mode and name from .git/objects file", out)
            ELSE CmdResult("ok", "", out)
        ELSE IF n = 0 THEN
            IF readerErr
            THEN CmdResult("err", "read mode and name from .git/objects file", out)
            ELSE CmdResult("err", "read tree entry object hash", out)
        ELSE IF rest = <<>> \/ Len(rest) < 1 + rest[1] THEN
            CmdResult("err", "read tree entry object hash", out)
        ELSE IF sp = 0 THEN
            CmdResult("panic", "name not found in .git/objects file", out)
        ELSE IF name_only THEN
            LsLoop(f, name_only, after, readerErr, out \o name \o <<LF>>)
        ELSE IF open.status # "ok" THEN
            CmdResult(open.status, "read object for tree entry", out)
        ELSE IF object.status # "ok" THEN
            CmdResult(object.status, object.error, out)
        ELSE IF \E i \in 1..Len(mode) : mode[i] > 127 THEN
            CmdResult("err", "mode is not valid utf-8", out)
        ELSE LsLoop(f, name_only, after, readerErr,
                    out \o Pad6(mode) \o <<SP>> \o KindName(object.kind) \o <<SP>>
                        \o HashHex(hash) \o <<SP>> \o name \o <<LF>>)

\* LsTree without the match on the kind: whatever was read is listed.
LsTreeAnyKind(f, name_only, object) ==
    IF object.status # "ok" THEN CmdResult(object.status, object.error, <<>>)
    ELSE LsLoop(f, name_only, object.reader, object.readerErr, <<>>)

\* ls_tree::invoke on the outcome of Object::read: a tree is listed, any other
\* kind is refused.
LsTree(f, name_only, object) ==
    IF object.status # "ok" THEN CmdResult(object.status, object.error, <<>>)
    ELSE IF object.kind = "tree" THEN
        LsLoop(f, name_only, object.reader, object.readerErr, <<>>)
    ELSE CmdResult("err", "don't know how to ls", <<>>)

\* One ls-tree [-n] <h>, start to end.
LsTreeCmd(name_only, h) ==
    LET o == OpenResult(fs, h)
        object == IF o.status = "ok"
                  THEN ObjectRead(ZlibDecode(fs.data[o.ino]))
                  ELSE Failure(o.status, o.error)
        res == LsTree(fs, name_only, object)
    IN  /\ reader.pc = "idle"
        /\ Len(runs) < MaxRuns
        /\ runs' = Append(runs,
              Run("ls-tree", res.status, res.error, res.out,
                  [message |-> <<>>, tree |-> HashHex(h), parent |-> None,
                   hash |-> h, before |-> repo.ref, after |-> repo.ref], FALSE))
        /\ UNCHANGED <<fs, inputs, writers, reader, log, dir, snaps, repo>>

\* A blob and a tree that lists it.
ListedBlob == Blob(<<97>>)
ListedTree ==
    LET payload == EntryBytes(<<49, 48, 48, 54, 52, 52>>, <<97>>, ObjectHash(ListedBlob))
    IN  [kind |-> "tree", expected_size |-> Len(payload), payload |-> payload]

\* The store of the kinds specification: to receive one object of any kind, or
\* a blob and the tree that lists it.
InitKinds ==
    /\ \/ \E o \in CodecObjects : inputs = {o}
       \/ inputs = {ListedBlob, ListedTree}
    /\ fs = EmptyFs
    /\ writers = [p \in {} |-> IdleWriter]
    /\ reader = IdleReader
    /\ log = <<>>
    /\ dir = <<>>
    /\ snaps = <<>>
    /\ repo = RepoCreate
    /\ runs = <<>>

NextKinds ==
    \/ \E o \in inputs : WriteObject(o)
    \/ \E h \in {ObjectHash(o) : o \in inputs} : CatFileCmd(h)
    \/ RExit
    \/ \E name_only \in BOOLEAN, h \in {ObjectHash(o) : o \in inputs} :
          LsTreeCmd(name_only, h)

SpecKinds == InitKinds /\ [][NextKinds]_vars

\* ------------------------------------------- hash-object in a working tree

\* hash-object -w <file>, first half: Object::blob_from_file stats the file
\* for expected_size and opens it; nothing is read yet.
HashObjectOpen(p, i) ==
    /\ writers[p].pc = "idle"
    /\ writers[p].left > 0
    /\ dir[i].type # "dir"
    /\ writers' = [writers EXCEPT
                      ![p].pc = "opened", ![p].left = @ - 1, ![p].res = "none",
                      ![p].obj = [kind |-> "blob",
                                  expected_size |-> Len(dir[i].content),
                                  payload |-> <<>>, file |-> dir[i].name]]
    /\ UNCHANGED <<fs, inputs, log, reader, dir, snaps, repo, runs>>

\* Second half: write_to_objects starts, and the object's reader yields what
\* the open file holds by now.
HashObjectWrite(p) ==
    LET w == writers[p]
        i == CHOOSE k \in 1..Len(dir) : dir[k].name = w.obj.file
    IN  /\ w.pc = "opened"
        /\ writers' = [writers EXCEPT
                          ![p].pc = "create",
                          ![p].obj = [kind |-> w.obj.kind,
                                      expected_size |-> w.obj.expected_size,
                                      payload |-> dir[i].content]]
        /\ UNCHANGED <<fs, inputs, log, reader, dir, snaps, repo, runs>>

\* What the user's files hold: nothing, one byte, four bytes.
FileContents == {<<>>, <<97>>, <<97, 98, 99, 100>>}

\* Another program rewrites, in place, the file that a hash-object has
\* opened and not yet read.
EditFile(p, content) ==
    LET i == CHOOSE k \in 1..Len(dir) : dir[k].name = writers[p].obj.file
    IN  /\ writers[p].pc = "opened"
        /\ dir[i].content # content
        /\ dir' = [dir EXCEPT ![i].content = content]
        /\ UNCHANGED <<fs, inputs, writers, reader, log, snaps, repo, runs>>

\* write-tree, run when no hash-object is running.
WorkTree ==
    /\ \A p \in DOMAIN writers : writers[p].pc = "idle"
    /\ WriteTreeCmd

\* A working directory of one file, or of a file and a directory.
WorkDirs ==
    {<<Entry(<<97>>, "file", <<97>>, <<>>)>>,
     <<Entry(<<97>>, "file", <<97>>, <<>>),
       Entry(<<98>>, "dir", <<>>, <<Entry(<<102>>, "file", <<98>>, <<>>)>>)>>}

InitWork ==
    /\ dir \in WorkDirs
    /\ fs = EmptyFs
    /\ inputs = {}
    /\ writers = [p \in {1} |-> [IdleWriter EXCEPT !.left = MaxCalls]]
    /\ reader = IdleReader
    /\ log = <<>>
    /\ snaps = <<>>
    /\ repo = RepoCreate
    /\ runs = <<>>

NextWork ==
    \/ \E p \in DOMAIN writers, i \in 1..Len(dir) : HashObjectOpen(p, i)
    \/ \E p \in DOMAIN writers : HashObjectWrite(p)
    \/ \E p \in DOMAIN writers, content \in FileContents : EditFile(p, content)
    \/ \E p \in DOMAIN writers : WCreate(p)
    \/ \E p \in DOMAIN writers : WStream(p)
    \/ \E p \in DOMAIN writers : WRename(p)
    \/ \E p \in DOMAIN writers : WIoFail(p)
    \/ WorkTree

SpecWork == InitWork /\ [][NextWork]_vars

\* ------------------------------------------------------------ the store

\* The file behind object path h is the complete compressed object of hash h.
Complete(f, h) ==
    LET dec == ZlibDecode(f.data[f.objects[h]])
    IN  ~dec.err /\ Sha1(dec.data) = h

IsPrefix(s, t) == Len(s) <= Len(t) /\ s = SubSeq(t, 1, Len(s))

\* C1: with one write_to_objects call at a time and a concurrent Object::read
\* of the same hash, every file at an object path is the complete compressed
\* object at every moment, and a reader that found the file has read only
\* bytes of the complete object: all of them once it is at the end.
C1_AtomicWrite ==
    /\ \A h \in DOMAIN fs.objects : fs.data[fs.objects[h]] = ZlibEncode(h.sha1)
    /\ reader.pc = "read" => IsPrefix(reader.buf, ZlibEncode(reader.hash.sha1))
    /\ (reader.pc = "done" /\ ~reader.missing) =>
           reader.buf = ZlibEncode(reader.hash.sha1)

\* A reader part-way through the file while the writer is part-way through
\* writing the same object again.
C1_Witness ==
    /\ reader.pc = "read"
    /\ reader.buf # <<>>
    /\ Len(reader.buf) < Len(fs.data[reader.fd])
    /\ \E p \in DOMAIN writers :
          /\ writers[p].pc = "stream"
          /\ writers[p].off > 0
          /\ writers[p].off < Len(EncoderOutput(writers[p].obj))
          /\ ObjectHash(writers[p].obj) = reader.hash

\* C2: when concurrent write calls have all returned, every file at an object
\* path decodes to the canonical bytes of that path's hash, and every call
\* that returned Ok has its object under the hash it returned.
C2_WritersNeverCorrupt ==
    (\A p \in DOMAIN writers : writers[p].pc = "idle") =>
        /\ \A h \in DOMAIN fs.objects : Complete(fs, h)
        /\ \A i \in 1..Len(log) : log[i].hash \in DOMAIN fs.objects

\* C3: a file at an object path is never replaced: the path keeps naming the
\* same file through every step.
C3_NeverRewritten ==
    [][\A h \in DOMAIN fs.objects :
          h \in DOMAIN fs'.objects /\ fs'.objects[h] = fs.objects[h]]_vars

\* C4: of two successive successful writes of the same object by one process,
\* the second returns the first one's hash and leaves the store (the object
\* paths and the content behind each) as the first left it.
C4_IdempotentWrite ==
    \A i \in 1..(Len(log) - 1) :
        log[i + 1].obj = log[i].obj =>
            /\ log[i + 1].hash = log[i].hash
            /\ log[i + 1].store = log[i].store

\* The same object written twice in a row by a process one of whose calls
\* failed and left its temporary file behind.
C4_Witness ==
    /\ Len(log) = 2
    /\ log[2].obj = log[1].obj
    /\ writers[1].pc = "idle"
    /\ writers[1].left = MaxCalls - 3

\* C8: a read of a hash with no file at its object path ends in the NotFound
\* error, returned to the caller, whatever the store holds.
C8_NotFound ==
    (reader.pc = "done" /\ reader.missing) =>
        /\ reader.object.status = "err"
        /\ reader.object.error = "NotFound"
        /\ reader.res.status = "err"
        /\ reader.res.out = <<>>

\* A read that found no file while the store holds another object.
C8_Witness ==
    /\ reader.pc = "done"
    /\ reader.missing
    /\ reader.res.error = "NotFound"
    /\ DOMAIN fs.objects # {}

\* ------------------------------------------------------------ the codec

\* The decoded stream behind object path h.
Decoded(f, h) == ZlibDecode(f.data[f.objects[h]])

\* C5: Object::read of the hash that Object::write returned for (K, P) gives
\* kind K, declared size |P| and a reader that yields exactly P.
C5_RoundTrip ==
    \A i \in 1..Len(log) :
        LET o == log[i].obj
        IN  (reader.pc = "done" /\ reader.hash = log[i].hash
                /\ o.expected_size = Len(o.payload)) =>
                /\ reader.object.status = "ok"
                /\ reader.object.kind = o.kind
                /\ reader.object.expected_size = Len(o.payload)
                /\ reader.object.reader = o.payload
                /\ ~reader.object.readerErr

\* A tree whose payload holds a NUL and a space, written and read back.
C5_Witness ==
    /\ reader.pc = "done"
    /\ reader.object.status = "ok"
    /\ reader.object.kind = "tree"
    /\ \E i \in 1..Len(log) :
          /\ reader.hash = log[i].hash
          /\ log[i].obj.payload = <<SP, NUL, 97>>

\* C6: a read that succeeds has delivered every byte that follows the header
\* in the decoded stream, no fewer and no more: a stream with fewer or more
\* bytes than its header declares makes the read fail.
C6_SizeMismatchDetected ==
    (reader.pc = "done" /\ reader.res.status = "ok") =>
        LET d == Decoded(fs, reader.hash).data
        IN  /\ reader.res.out = Drop(d, FirstIndex(d, NUL))
            /\ Len(reader.res.out) = reader.object.expected_size

\* C7: a read of an object whose decoded stream holds no NUL ends in an error
\* returned to the caller.
C7_MalformedHeaderIsError ==
    (/\ reader.pc = "done"
     /\ ~reader.missing
     /\ FirstIndex(Decoded(fs, reader.hash).data, NUL) = 0) =>
        reader.object.status = "err"

\* ------------------------------------------------------------- the trees

\* The entries of a tree payload, read as ls-tree reads them: "mode name" up
\* to a NUL, then the raw digest.
RECURSIVE TreeEntries(_)
TreeEntries(payload) ==
    IF payload = <<>> THEN <<>>
    ELSE LET n == FirstIndex(payload, NUL)
             head == SubSeq(payload, 1, n - 1)
             sp == FirstIndex(head, SP)
             hlen == payload[n + 1]
         IN  <<[mode |-> SubSeq(head, 1, sp - 1), name |-> Drop(head, sp),
                hash |-> [sha1 |-> SubSeq(payload, n + 2, n + 1 + hlen)]]>>
                 \o TreeEntries(Drop(payload, n + 1 + hlen))

\* Byte-wise order of two byte strings; a proper prefix comes first.
BytesLess(x, y) ==
    LET m == Min(Len(x), Len(y))
    IN  IF SubSeq(x, 1, m) = SubSeq(y, 1, m) THEN Len(x) < Len(y)
        ELSE SliceCmp(SubSeq(x, 1, m), SubSeq(y, 1, m)) = "Less"

\* The name a tree entry is to be ordered by: a directory's ("40000") with
\* '/' appended.
OrderKey(e) ==
    IF e.mode = <<52, 48, 48, 48, 48>> THEN e.name \o <<47>> ELSE e.name

\* C9: every snapshot of the same directory content returns the same tree
\* hash, whatever order read_dir yields the entries in.
C9_TreeDeterminism ==
    \A i, j \in 1..Len(snaps) :
        snaps[i].status = snaps[j].status /\ snaps[i].hash = snaps[j].hash

\* C10: the entries of every tree written are in strictly increasing
\* byte-wise order of their names, a directory's taken with '/' appended, and
\* the comparison a snapshot sorted with finds no two of the directory's
\* entries Equal.
C10_TreeOrder ==
    /\ \A i \in 1..Len(snaps) :
          LET es == TreeEntries(snaps[i].payload)
          IN  \A k \in 1..(Len(es) - 1) :
                  BytesLess(OrderKey(es[k]), OrderKey(es[k + 1]))
    /\ (\E s \in 1..Len(snaps) : snaps[s].status = "ok") =>
          \A i, j \in 1..Len(dir) :
              i # j => EntryCmp(dir[i], dir[j]) # "Equal"

\* ------------------------------------------------------ empty subtrees

\* A listing yields an entry: it holds, besides the metadata directory, a
\* file or a directory whose own listing yields one.
RECURSIVE Yields(_)
Yields(listing) ==
    \E i \in 1..Len(listing) :
        /\ listing[i].name # DotGit
        /\ listing[i].type = "dir" => Yields(listing[i].children)

\* The names a listing's tree is to hold.
Kept(listing) ==
    {listing[i].name : i \in {k \in 1..Len(listing) :
        /\ listing[k].name # DotGit
        /\ listing[k].type = "dir" => Yields(listing[k].children)}}

\* The stored objects that are trees, each with its entries.
StoredTrees(f) ==
    {h \in DOMAIN f.objects : ObjectRead(Decoded(f, h)).kind = "tree"}

\* C11: a snapshot returns None and leaves the store without any object
\* exactly when its directory yields no entry; otherwise the root tree names
\* the entries that yield something and no other, and at every depth a stored
\* tree has at least one entry and each directory entry of it names a stored
\* tree.
C11_EmptySubtreeElision ==
    \A s \in 1..Len(snaps) :
        /\ snaps[s].status = "err" <=> ~Yields(dir)
        /\ ~Yields(dir) => DOMAIN fs.objects = {} /\ snaps[s].payload = <<>>
        /\ Yields(dir) =>
              /\ snaps[s].hash \in DOMAIN fs.objects
              /\ {e.name : e \in Range(TreeEntries(snaps[s].payload))} = Kept(dir)
        /\ \A h \in StoredTrees(fs) :
              LET es == TreeEntries(ObjectRead(Decoded(fs, h)).reader)
              IN  /\ es # <<>>
                  /\ \A k \in 1..Len(es) :
                        es[k].mode = <<52, 48, 48, 48, 48>> =>
                            es[k].hash \in StoredTrees(fs)

\* A snapshot of a directory holding a subdirectory that is dropped two
\* levels down and a subdirectory that is kept with one of its own dropped.
C11_Witness ==
    /\ Len(snaps) = 1
    /\ snaps[1].status = "ok"
    /\ \E i, j \in 1..Len(dir) :
          /\ dir[i].name # DotGit /\ dir[j].name # DotGit
          /\ dir[i].type = "dir"
          /\ Len(dir[i].children) = 1
          /\ dir[i].children[1].type = "dir"
          /\ dir[i].children[1].children # <<>>
          /\ ~Yields(dir[i].children)
          /\ dir[j].type = "dir"
          /\ Len(dir[j].children) = 2
          /\ dir[j].name \in Kept(dir)

\* ----------------------------------------------------------- the commits

\* The payload of the object stored under hash h.
StoredPayload(f, h) == ObjectRead(Decoded(f, h)).reader

\* A commit payload as it is to be: the tree line, the parent line when there
\* is a parent, author, committer, a blank line, the message as given.
ExpectedCommit(message, tree, parent) ==
    <<116, 114, 101, 101, 32>> \o tree \o <<LF>>
        \o (IF parent.some
            THEN <<112, 97, 114, 101, 110, 116, 32>> \o parent.text \o <<LF>>
            ELSE <<>>)
        \o <<97, 117, 116, 104, 111, 114, 32>> \o Identity \o <<LF>>
        \o <<99, 111, 109, 109, 105, 116, 116, 101, 114, 32>> \o Identity \o <<LF>>
        \o <<LF>> \o message

\* C12: the payload of every commit written, by commit-tree or by commit, is
\* "tree T", "parent P" if and only if write_commit was given a parent, the
\* author line, the committer line, one blank line, then the message with no
\* byte added or removed.
C12_CommitPayload ==
    \A i \in 1..Len(runs) :
        runs[i].wrote =>
            /\ runs[i].hash \in DOMAIN fs.objects
            /\ StoredPayload(fs, runs[i].hash)
                   = ExpectedCommit(runs[i].message, runs[i].tree, runs[i].parent)

\* The second line of a text.
SecondLine(text) ==
    LET rest == Drop(text, FirstIndex(text, LF))
    IN  SubSeq(rest, 1, FirstIndex(rest, LF) - 1)

\* C13: a commit command run when the branch ref has no target (no ref file,
\* or an empty one) is not refused for that and writes a commit with no
\* parent line; run when the ref holds a hash, it writes a commit whose
\* parent line carries exactly that hash.
C13_CommitChaining ==
    \A i \in 1..Len(runs) :
        runs[i].cmd = "commit" =>
            /\ runs[i].error # "read HEAD reference target"
            /\ runs[i].wrote =>
                  LET second == SecondLine(StoredPayload(fs, runs[i].hash))
                      target == Trim(runs[i].before.text)
                  IN  IF runs[i].before.exists /\ target # <<>>
                      THEN second = <<112, 97, 114, 101, 110, 116, 32>> \o target
                      ELSE SubSeq(second, 1, 7) = <<97, 117, 116, 104, 111, 114, 32>>

\* C15: a commit-tree that succeeds has stored the commit and printed its
\* hash in hex, on a line.
C15_CommitTreePrintsHash ==
    \A i \in 1..Len(runs) :
        (runs[i].cmd = "commit-tree" /\ runs[i].status = "ok") =>
            /\ runs[i].hash \in DOMAIN fs.objects
            /\ runs[i].stdout = HashHex(runs[i].hash) \o <<LF>>

\* C17: the ref file names no hash that the store lacks; while the commit
\* command has not stored its commit the ref file is as the command found it,
\* and it is first touched when the commit is in the store; a command that
\* ends without having stored a commit leaves the ref file as it found it,
\* and one that ends with Ok after storing a commit leaves exactly that
\* commit's hash in it.
C17_RefAfterCommit ==
    /\ (repo.ref.exists /\ Trim(repo.ref.text) # <<>>) =>
           \E h \in DOMAIN fs.objects : HashHex(h) = Trim(repo.ref.text)
    /\ repo.commit.pc \in {"tree", "commit"} => repo.ref = repo.commit.before
    /\ repo.commit.pc \in {"ref", "refwrite"} =>
           /\ repo.commit.commit_hash \in DOMAIN fs.objects
           /\ repo.ref \in {repo.commit.before, FileOf(<<>>)}
    /\ (repo.commit.pc = "idle" /\ runs # <<>>) => repo.ref = runs[Len(runs)].after
    /\ \A i \in 1..Len(runs) :
          runs[i].cmd = "commit" =>
              /\ ~runs[i].wrote => runs[i].after = runs[i].before
              /\ (runs[i].wrote /\ runs[i].status = "ok") =>
                    /\ runs[i].hash \in DOMAIN fs.objects
                    /\ runs[i].after = FileOf(HashHex(runs[i].hash))

\* A commit command that failed while writing its commit object, then one
\* that stored a commit and moved the ref to it.
C17_Witness ==
    /\ Len(runs) = 2
    /\ runs[1].cmd = "commit" /\ runs[1].error = "create commit"
    /\ runs[2].cmd = "commit" /\ runs[2].status = "ok" /\ runs[2].wrote
    /\ repo.ref = FileOf(HashHex(runs[2].hash))
    /\ repo.ref # runs[2].before

\* ------------------------------------------------------------- the kinds

\* C14: cat-file on a stored tree or commit ends in an error with nothing
\* written to stdout, and ls-tree on a blob or commit that was in the store
\* when it ran (objects stay once stored) ends in an error with no entry
\* listed.
C14_WrongKindRefused ==
    /\ (/\ reader.pc = "done"
        /\ reader.object.status = "ok"
        /\ reader.object.kind \in {"tree", "commit"}) =>
           /\ reader.res.status = "err"
           /\ reader.res.error = "don't know how to print"
           /\ reader.res.out = <<>>
    /\ \A i \in 1..Len(runs) :
          (/\ runs[i].cmd = "ls-tree"
           /\ runs[i].error # "NotFound"
           /\ runs[i].hash \in DOMAIN fs.objects
           /\ ObjectRead(Decoded(fs, runs[i].hash)).kind \in {"blob", "commit"}) =>
              /\ runs[i].status = "err"
              /\ runs[i].error = "don't know how to ls"
              /\ runs[i].stdout = <<>>

\* cat-file has refused a stored commit whose payload is not empty, and
\* ls-tree, with and without -n, has refused it too.
C14_Witness ==
    /\ reader.pc = "done"
    /\ reader.object.status = "ok"
    /\ reader.object.kind = "commit"
    /\ reader.object.reader = <<ZERO + 1, SP, NUL>>
    /\ reader.res.status = "err"
    /\ Len(runs) = 2
    /\ runs[1].hash = reader.hash /\ runs[2].hash = reader.hash
    /\ runs[1].error = "don't know how to ls"
    /\ runs[2].error = "don't know how to ls"
    /\ runs[1].tree # <<>>

\* ------------------------------------------------------ the working tree

\* C16: every stored object's header declares as many bytes as follow it:
\* blobs made from a file, also one that changed between the stat and the
\* read, trees and commits.
C16_DeclaredSizeIsPayloadLength ==
    \A h \in DOMAIN fs.objects :
        LET d == Decoded(fs, h).data
            object == ObjectRead(Decoded(fs, h))
        IN  /\ object.status = "ok"
            /\ object.expected_size = Len(Drop(d, FirstIndex(d, NUL)))

\* C18: when no write is running there is no file named "temporary" in the
\* working directory, whether the last write returned Ok or an error, and
\* every tree a snapshot returned names only the user's entries.
C18_NoTemporaryLeft ==
    /\ (\A p \in DOMAIN writers : writers[p].pc = "idle") => fs.tmp = 0
    /\ \A s \in 1..Len(snaps) :
          \A k \in 1..Len(TreeEntries(snaps[s].payload)) :
              \E i \in 1..Len(dir) :
                  dir[i].name = TreeEntries(snaps[s].payload)[k].name

====
